---- MODULE Spec2Model ----
(***************************************************************************)
(* shrinktunes: a batch audio conversion command line tool that drives     *)
(* ffmpeg.  The model covers                                               *)
(*   - shrinktunes/ffmpeg.py: the parser of `ffmpeg -formats` output       *)
(*     (get_ffmpeg_supported_formats), the module-level catalog and the    *)
(*     availability check;                                                 *)
(*   - shrinktunes/cli.py: the convert command, convert_files and          *)
(*     convert_file.                                                       *)
(* Text is modelled as a sequence of one-character strings, so that the    *)
(* regular expression, str.split, str.strip, Path.suffix and               *)
(* Path.with_suffix are computed character by character.                   *)
(***************************************************************************)
EXTENDS Integers, Sequences, FiniteSets, TLC

VARIABLES
    binary,           \* environment: is an ffmpeg executable on the PATH
    fs,               \* environment: names of the files in the working directory
    args,             \* command line: glob_pattern, output, verbose, force
    run,              \* which process this is (1 = first run, 2 = the re-run)
    pc,               \* position of the process
    stdout,           \* process.stdout of `ffmpeg -formats`
    lines,            \* output.split("\n")
    lineNo,           \* index of the next line of the for loop
    formats,          \* the list being built by get_ffmpeg_supported_formats
    SUPPORTED_FORMATS,               \* module global, ffmpeg.py line 52
    SUPPORTED_FORMATS_BY_EXTENSION,  \* module global, ffmpeg.py line 53
    paths,            \* convert_files: list(Path().glob(glob_pattern))
    fmtNo,            \* convert_files: index of output_format in output_formats
    pathNo,           \* convert_files: index of path in paths
    converted_count,  \* convert_files: the counter
    echoed,           \* everything written by typer.echo, in order
    exitCode,         \* exit status of the process (-1 while running)
    calls,            \* history: every convert_file call of this process
    probes,           \* history: number of output_path.exists() checks of this process
    scanned,          \* history: has Path().glob run in this process
    fsAtStart,        \* history: fs when this process started
    missingAtStart,   \* history: ffmpeg was missing when this process started
    lastRun           \* history: summary of the previous run, once there is one

vars == <<binary, fs, args, run, pc, stdout, lines, lineNo, formats,
          SUPPORTED_FORMATS, SUPPORTED_FORMATS_BY_EXTENSION, paths, fmtNo,
          pathNo, converted_count, echoed, exitCode, calls, probes, scanned,
          fsAtStart, missingAtStart, lastRun>>

catalogVars == <<stdout, lines, lineNo, formats>>
driverVars == <<paths, fmtNo, pathNo, converted_count, calls, probes, scanned>>

----------------------------------------------------------------------------
(* Bounds of the model *)

MaxFormats == 2      \* longest list of -o output formats
MaxFiles == 3        \* most files in the working directory when the first run starts
MaxRuns == 2         \* processes run one after the other
MaxListed == 4       \* most glob matches in the directory a run after the first starts in
MaxLines == 2        \* most lines of `ffmpeg -formats` output in the parser check
MaxExts == 2         \* most comma separated parts generated in an extension token

----------------------------------------------------------------------------
(* Text *)

\* Characters in code point order; Code(c) is the rank of c in it.  A character
\* that a string literal cannot hold stands as the name of its code point.
Alphabet == <<"\t", "\n", "U+000B", "\f", "\r", "U+001C", "U+001D", "U+001E",
              "U+001F", " ", "*", ",", ".", "2", "3", "4", "D", "E",
              "a", "b", "c", "d", "e", "f", "g", "i", "k", "l", "m", "o", "p",
              "t", "v", "w", "x", "U+0085", "U+00A0", "U+1680", "U+2000",
              "U+2001", "U+2002", "U+2003", "U+2004", "U+2005", "U+2006",
              "U+2007", "U+2008", "U+2009", "U+200A", "U+2028", "U+2029",
              "U+202F", "U+205F", "U+3000">>

Code(c) == CHOOSE i \in 1..Len(Alphabet) : Alphabet[i] = c

\* str < str of Python: lexicographic by code point, a proper prefix is smaller
RECURSIVE StrLess(_, _)
StrLess(s, t) ==
    IF t = <<>> THEN FALSE
    ELSE IF s = <<>> THEN TRUE
    ELSE IF Head(s) # Head(t) THEN Code(Head(s)) < Code(Head(t))
    ELSE StrLess(Tail(s), Tail(t))

\* the characters the regular expression class \s (of a str pattern) and
\* str.strip() treat as blank: those for which str.isspace() holds
IsSpace(c) ==
    c \in {"\t", "\n", "U+000B", "\f", "\r", "U+001C", "U+001D", "U+001E",
           "U+001F", " ", "U+0085", "U+00A0", "U+1680", "U+2000", "U+2001",
           "U+2002", "U+2003", "U+2004", "U+2005", "U+2006", "U+2007", "U+2008",
           "U+2009", "U+200A", "U+2028", "U+2029", "U+202F", "U+205F", "U+3000"}

\* number of consecutive blank characters of s from position pos on
RECURSIVE SpaceRun(_, _)
SpaceRun(s, pos) ==
    IF pos > Len(s) \/ ~IsSpace(s[pos]) THEN 0 ELSE 1 + SpaceRun(s, pos + 1)

\* number of consecutive non-blank characters of s from position pos on
RECURSIVE WordRun(_, _)
WordRun(s, pos) ==
    IF pos > Len(s) \/ IsSpace(s[pos]) THEN 0 ELSE 1 + WordRun(s, pos + 1)

Max(S) == CHOOSE m \in S : \A k \in S : k <= m
Min(S) == CHOOSE m \in S : \A k \in S : m <= k

\* str.split(sep) for a one-character separator: one part more than separators
RECURSIVE SplitFrom(_, _, _, _)
SplitFrom(s, sep, pos, cur) ==
    IF pos > Len(s) THEN <<cur>>
    ELSE IF s[pos] = sep THEN <<cur>> \o SplitFrom(s, sep, pos + 1, <<>>)
    ELSE SplitFrom(s, sep, pos + 1, Append(cur, s[pos]))

Split(s, sep) == SplitFrom(s, sep, 1, <<>>)

\* str.strip(): drop the blank characters at both ends
Strip(s) ==
    LET keep == {i \in 1..Len(s) : ~IsSpace(s[i])}
    IN  IF keep = {} THEN <<>> ELSE SubSeq(s, Min(keep), Max(keep))

----------------------------------------------------------------------------
(* shrinktunes/ffmpeg.py: the capability line pattern                      *)
(*   ^\s* (D)? \.? (E)? \s+ (\S+)\s+ (.*?)\s*$                             *)
(* matched by pattern.match with backtracking: every quantifier tries its  *)
(* preferred length first (greedy: longest, optional group: present,       *)
(* .*?: shortest) and gives way only when the rest cannot match.           *)

\* (.*?)\s*$ at pos: the shortest description after which only blanks remain
DescriptionLen(line, pos) ==
    Min({y \in 0..(Len(line) - pos + 1) :
            /\ \A i \in pos..(pos + y - 1) : line[i] # "\n"
            /\ SpaceRun(line, pos + y) = Len(line) - (pos + y) + 1})

\* lengths the second \s+ can take at pos ((.*?)\s*$ matches after any of them)
SecondGapLens(line, pos) ==
    {c \in 1..SpaceRun(line, pos) :
        \E y \in 0..(Len(line) - (pos + c) + 1) :
            /\ \A i \in (pos + c)..(pos + c + y - 1) : line[i] # "\n"
            /\ SpaceRun(line, pos + c + y) = Len(line) - (pos + c + y) + 1}

\* lengths (\S+) can take at pos so that the rest still matches
ExtensionLens(line, pos) ==
    {x \in 1..WordRun(line, pos) : SecondGapLens(line, pos + x) # {}}

\* lengths the first \s+ can take at pos so that the rest still matches
FirstGapLens(line, pos) ==
    {b \in 1..SpaceRun(line, pos) : ExtensionLens(line, pos + b) # {}}

\* the ways ^\s*(D)?\.?(E)? can match so that the rest still matches:
\* a leading blanks, d/p/e = 1 when D / . / E is consumed
PrefixChoices(line) ==
    {t \in (0..SpaceRun(line, 1)) \X {0, 1} \X {0, 1} \X {0, 1} :
        LET a == t[1]  d == t[2]  p == t[3]  e == t[4]
        IN  /\ d = 1 => (a + 1 <= Len(line) /\ line[a + 1] = "D")
            /\ p = 1 => (a + d + 1 <= Len(line) /\ line[a + d + 1] = ".")
            /\ e = 1 => (a + d + p + 1 <= Len(line) /\ line[a + d + p + 1] = "E")
            /\ FirstGapLens(line, a + d + p + e + 1) # {}}

\* the order in which the backtracking matcher tries the prefix choices
PrefixRank(t) == t[1] * 8 + t[2] * 4 + t[3] * 2 + t[4]

NoMatch == [matched |-> FALSE]

\* pattern.match(line): the groups of the first match in backtracking order
PatternMatch(line) ==
    LET choices == PrefixChoices(line)
    IN  IF choices = {} THEN NoMatch
        ELSE
          LET best == Max({PrefixRank(u) : u \in choices})
              t == CHOOSE u \in choices : PrefixRank(u) = best
              gap == t[1] + t[2] + t[3] + t[4] + 1
              b == Max(FirstGapLens(line, gap))
              ext == gap + b
              x == Max(ExtensionLens(line, ext))
              c == Max(SecondGapLens(line, ext + x))
              desc == ext + x + c
              y == DescriptionLen(line, desc)
          IN  [matched |-> TRUE,
               is_decoder |-> IF t[2] = 1 THEN "D" ELSE "None",
               is_encoder |-> IF t[4] = 1 THEN "E" ELSE "None",
               extension |-> SubSeq(line, ext, ext + x - 1),
               description |-> SubSeq(line, desc, desc + y - 1)]

FFmpegFormat(is_decoder, is_encoder, extension, description) ==
    [is_decoder |-> is_decoder, is_encoder |-> is_encoder,
     extension |-> extension, description |-> description]

\* LineFormats without the split on commas: one descriptor for the whole token
LineFormats_NoSplit(line) ==
    LET match == PatternMatch(line)
    IN  IF ~match.matched THEN <<>>
        ELSE <<FFmpegFormat(match.is_decoder = "D", match.is_encoder = "E",
                            match.extension, Strip(match.description))>>

\* the body of `for line in output.split("\n")`: what one line appends
LineFormats(line) ==
    LET match == PatternMatch(line)
    IN  IF ~match.matched THEN <<>>
        ELSE LET exts == Split(match.extension, ",")
             IN  [i \in 1..Len(exts) |->
                     FFmpegFormat(match.is_decoder = "D", match.is_encoder = "E",
                                  exts[i], Strip(match.description))]

\* sorted(formats, key=lambda fmt: fmt.extension): stable, ascending
RECURSIVE SortedByExtension(_)
SortedByExtension(fmts) ==
    IF fmts = <<>> THEN <<>>
    ELSE LET n == Len(fmts)
             rest == SortedByExtension(SubSeq(fmts, 1, n - 1))
             last == fmts[n]
             \* the last element goes after every element that is not greater
             k == Cardinality({i \in 1..Len(rest) :
                                 ~StrLess(last.extension, rest[i].extension)})
         IN  SubSeq(rest, 1, k) \o <<last>> \o SubSeq(rest, k + 1, Len(rest))

\* {fmt.extension: fmt for fmt in SUPPORTED_FORMATS}: the last one wins
ByExtension(fmts) ==
    [e \in {fmts[i].extension : i \in 1..Len(fmts)} |->
        fmts[Max({i \in 1..Len(fmts) : fmts[i].extension = e})]]

----------------------------------------------------------------------------
(* The process: what every run starts from *)

ProcessStart ==
    /\ pc = "import"
    /\ lines = <<>>
    /\ lineNo = 0
    /\ formats = <<>>
    /\ SUPPORTED_FORMATS = <<>>
    /\ SUPPORTED_FORMATS_BY_EXTENSION = <<>>
    /\ paths = <<>>
    /\ fmtNo = 0
    /\ pathNo = 0
    /\ converted_count = 0
    /\ echoed = <<>>
    /\ exitCode = -1
    /\ calls = <<>>
    /\ probes = 0
    /\ scanned = FALSE

\* an uncaught exception: Python prints the traceback and exits with status 1
Crash(what) ==
    /\ pc' = "done"
    /\ exitCode' = 1
    /\ echoed' = Append(echoed, [kind |-> "traceback", what |-> what])

----------------------------------------------------------------------------
(* shrinktunes/ffmpeg.py, run when cli.py imports the module *)

\* line 17 with no ffmpeg on the PATH: subprocess.run raises FileNotFoundError
\* while the module is being imported; nothing catches it
ImportFails ==
    /\ pc = "import"
    /\ binary = "missing"
    /\ Crash("FileNotFoundError")
    /\ UNCHANGED <<binary, fs, args, run, catalogVars, SUPPORTED_FORMATS,
                   SUPPORTED_FORMATS_BY_EXTENSION, driverVars, fsAtStart,
                   missingAtStart, lastRun>>

\* lines 17-18, 31-32: run `ffmpeg -formats` (no check=True), split its output
RunFormatsQuery ==
    /\ pc = "import"
    /\ binary = "present"
    /\ lines' = Split(stdout, "\n")
    /\ lineNo' = 1
    /\ formats' = <<>>
    /\ pc' = "parse"
    /\ UNCHANGED <<binary, fs, args, run, stdout, SUPPORTED_FORMATS,
                   SUPPORTED_FORMATS_BY_EXTENSION, driverVars, echoed, exitCode,
                   fsAtStart, missingAtStart, lastRun>>

\* lines 32-42: one iteration of the loop over the lines
ParseLine ==
    /\ pc = "parse"
    /\ lineNo <= Len(lines)
    /\ formats' = formats \o LineFormats(lines[lineNo])
    /\ lineNo' = lineNo + 1
    /\ UNCHANGED <<binary, fs, args, run, pc, stdout, lines, SUPPORTED_FORMATS,
                   SUPPORTED_FORMATS_BY_EXTENSION, driverVars, echoed, exitCode,
                   fsAtStart, missingAtStart, lastRun>>

\* line 44 and the module level lines 52-53: return, sort, index by extension
ReturnFormats ==
    /\ pc = "parse"
    /\ lineNo > Len(lines)
    /\ SUPPORTED_FORMATS' = SortedByExtension(formats)
    /\ SUPPORTED_FORMATS_BY_EXTENSION' = ByExtension(SortedByExtension(formats))
    /\ pc' = "command"
    /\ UNCHANGED <<binary, fs, args, run, catalogVars, driverVars, echoed,
                   exitCode, fsAtStart, missingAtStart, lastRun>>

----------------------------------------------------------------------------
(* The parser on generated `ffmpeg -formats` output *)

RECURSIVE Join(_, _)
Join(parts, sep) ==
    IF parts = <<>> THEN <<>>
    ELSE IF Len(parts) = 1 THEN parts[1]
    ELSE parts[1] \o <<sep>> \o Join(Tail(parts), sep)

\* extension tokens of 1..MaxExts comma separated parts, one part possibly empty
GenTokens ==
    {Join([i \in 1..n |-> IF i = hole THEN <<>> ELSE <<"a">>], ",") :
        n \in 1..MaxExts, hole \in 0..MaxExts}
GenPrefixes ==
    {<<>>, <<" ">>, <<"\f", "D", "E", " ">>, <<"D", " ">>, <<" ", " ", "E", "\t">>,
     <<"D", ".", "E", " ">>, <<" ", "D", "E">>}
GenSuffixes == {<<>>, <<"U+00A0">>, <<" ", "x", "\f", "x", " ">>}
GenLines ==
    {p \o <<"b">> \o s : p \in GenPrefixes, s \in GenSuffixes}
    \cup {<<" ", "D", "E", " ">> \o t \o <<" ", "x">> : t \in GenTokens}
GenOutputs ==
    {Join(ls, "\n") : ls \in UNION {[1..n -> GenLines] : n \in 0..MaxLines}}

NoArgs == [command |-> "none", glob_pattern |-> <<>>, output |-> <<>>,
           verbose |-> FALSE, force |-> FALSE]

InitCatalog ==
    /\ binary \in {"present", "missing"}
    /\ stdout \in IF binary = "present" THEN GenOutputs ELSE {<<>>}
    /\ fs = {}
    /\ args = NoArgs
    /\ run = 1
    /\ fsAtStart = fs
    /\ missingAtStart = (binary = "missing")
    /\ lastRun = [ended |-> FALSE, exitCode |-> -1, invoked |-> 0]
    /\ ProcessStart

NextCatalog == ImportFails \/ RunFormatsQuery \/ ParseLine \/ ReturnFormats

SpecCatalog == InitCatalog /\ [][NextCatalog]_vars

----------------------------------------------------------------------------
(* pathlib, for file names in the working directory *)

\* str.rfind("."): position of the last dot, 0 when there is none
LastDot(name) ==
    LET dots == {i \in 1..Len(name) : name[i] = "."}
    IN  IF dots = {} THEN 0 ELSE Max(dots)

\* Path.suffix: from the last dot on, unless that dot starts or ends the name
Suffix(name) ==
    LET i == LastDot(name)
    IN  IF 1 < i /\ i < Len(name) THEN SubSeq(name, i, Len(name)) ELSE <<>>

\* Path.with_suffix("." + ext), ext a non-empty extension without dots or
\* separators (the only ones the catalogs of this model hold)
WithSuffix(name, ext) ==
    SubSeq(name, 1, Len(name) - Len(Suffix(name))) \o <<".">> \o ext

\* fnmatch of one path component against a pattern with literal characters and *
RECURSIVE Fnmatch(_, _)
Fnmatch(name, pat) ==
    IF pat = <<>> THEN name = <<>>
    ELSE IF Head(pat) = "*"
         THEN Fnmatch(name, Tail(pat)) \/ (name # <<>> /\ Fnmatch(Tail(name), pat))
    ELSE name # <<>> /\ Head(name) = Head(pat) /\ Fnmatch(Tail(name), Tail(pat))

\* the lists that hold every name of S once
RECURSIVE Orders(_)
Orders(S) ==
    IF S = {} THEN {<<>>}
    ELSE UNION {{<<n>> \o q : q \in Orders(S \ {n})} : n \in S}

\* list(Path().glob(glob_pattern)): the matching names, in the order the
\* directory scan yields them.  That order is the file system's (os.scandir)
\* and nothing sorts it: any order of the matches can come back.
GlobResults(files, glob_pattern) ==
    Orders({n \in files : Fnmatch(n, glob_pattern)})

----------------------------------------------------------------------------
(* shrinktunes/cli.py *)

DotWav == <<".", "w", "a", "v">>

\* line 15-17: log prints only in verbose mode
Log(out, message, verbose) == IF verbose THEN Append(out, message) ELSE out

\* IsCandidate accepting any file that has an extension
IsCandidate_AnyExtension(path) == Suffix(path) # <<>>

\* line 41: the files convert_files hands to convert_file
IsCandidate(path) == Suffix(path) = DotWav

\* ShouldSkip that forgets the -f flag
ShouldSkip_IgnoresForce(output_exists, force) == output_exists

\* ShouldSkip that never finds the output
ShouldSkip_Never(output_exists, force) == FALSE

\* line 23: convert_file skips when the output exists and -f is not given
ShouldSkip(output_exists, force) == output_exists /\ ~force

\* SkippedCount counting only the .wav files among the matches
SkippedCount_Candidates(found, converted) ==
    Len(SelectSeq(found, IsCandidate)) - converted

\* line 46: the "skipped" number of the final summary
SkippedCount(found, converted) == Len(found) - converted

\* line 45: the number in "Converted N files to <format>"
SubtotalReported(count) == count

\* FirstUnsupported looking at the first requested format only
FirstUnsupported_OnlyFirst(output, catalog) ==
    IF output[1] \notin DOMAIN catalog THEN 1 ELSE 0

\* line 76-79: index of the first requested format the catalog lacks, 0 if none
FirstUnsupported(output, catalog) ==
    LET bad == {i \in 1..Len(output) : output[i] \notin DOMAIN catalog}
    IN  IF bad = {} THEN 0 ELSE Min(bad)

\* lines 84-86: an exception out of convert_files is reported, exit status 1
ErrorExit(out, what) == Append(out, [kind |-> "error", what |-> what])

\* ffmpeg.py lines 62-67, on a missing binary: returns False;
\* cli.py lines 60-73: print the installation hint and exit with status 1
PreflightMissing ==
    /\ pc = "command"
    /\ args.command = "convert"
    /\ binary = "missing"
    /\ echoed' = echoed \o <<[kind |-> "not_installed"], [kind |-> "install_hint"]>>
    /\ exitCode' = 1
    /\ pc' = "done"
    /\ UNCHANGED <<binary, fs, args, run, catalogVars, SUPPORTED_FORMATS,
                   SUPPORTED_FORMATS_BY_EXTENSION, driverVars, fsAtStart,
                   missingAtStart, lastRun>>

\* ffmpeg.py lines 62-67 with the binary present: `ffmpeg -version` exits 0 and
\* the check returns True, or exits nonzero and check=True raises
\* CalledProcessError, which nothing catches
PreflightPresent ==
    /\ pc = "command"
    /\ args.command = "convert"
    /\ binary = "present"
    /\ \E rc \in {0, 1} :
         IF rc = 0
         THEN /\ pc' = "validate"
              /\ UNCHANGED <<echoed, exitCode>>
         ELSE Crash("CalledProcessError")
    /\ UNCHANGED <<binary, fs, args, run, catalogVars, SUPPORTED_FORMATS,
                   SUPPORTED_FORMATS_BY_EXTENSION, driverVars, fsAtStart,
                   missingAtStart, lastRun>>

\* ffmpeg.py lines 47-49 with exts left out: the default allow-list
CommonExtensions ==
    {<<"w", "a", "v">>, <<"m", "p", "3">>, <<"m", "4", "a">>, <<"o", "g", "g">>,
     <<"f", "l", "a", "c">>, <<"w", "m", "a">>, <<"a", "a", "c">>,
     <<"m", "p", "4">>, <<"w", "e", "b", "m">>, <<"m", "k", "v">>,
     <<"a", "v", "i">>}

filter_extensions(fmts) ==
    SelectSeq(fmts, LAMBDA fmt : fmt.extension \in CommonExtensions)

\* ffmpeg.py lines 55-59, as they come out of the catalog
SUPPORTED_DECODE_FORMATS == SelectSeq(SUPPORTED_FORMATS, LAMBDA fmt : fmt.is_decoder)
SUPPORTED_ENCODE_FORMATS == SelectSeq(SUPPORTED_FORMATS, LAMBDA fmt : fmt.is_encoder)
COMMON_SUPPORTED_DECODE_FORMATS == filter_extensions(SUPPORTED_DECODE_FORMATS)
COMMON_SUPPORTED_ENCODE_FORMATS == filter_extensions(SUPPORTED_ENCODE_FORMATS)

\* ffmpeg.py line 78
gap == 3

\* the format specification {text:width}: pad on the right with spaces
Padded(text, width) ==
    text \o [i \in 1..(width - Len(text)) |-> " "]

\* ffmpeg.py lines 82-87 and 90-95: one echoed line per listed format
FormatLines(fmts, ext_max_len) ==
    [i \in 1..Len(fmts) |->
        [kind |-> "format",
         text |-> Padded(fmts[i].extension, ext_max_len + gap)
                      \o fmts[i].description]]

\* cli.py lines 89-91, ffmpeg.py lines 71-75 with the binary missing: the check
\* returns False, the command says so and raises SystemExit(1)
InfoMissing ==
    /\ pc = "command"
    /\ args.command = "info"
    /\ binary = "missing"
    /\ echoed' = Append(echoed, [kind |-> "info_not_installed"])
    /\ exitCode' = 1
    /\ pc' = "done"
    /\ UNCHANGED <<binary, fs, args, run, catalogVars, SUPPORTED_FORMATS,
                   SUPPORTED_FORMATS_BY_EXTENSION, driverVars, fsAtStart,
                   missingAtStart, lastRun>>

\* cli.py lines 89-91, ffmpeg.py lines 70-95 with the binary present and
\* print_decoders = print_encoders = True, show_all = False.  A nonzero exit of
\* `ffmpeg -version` raises CalledProcessError out of the check; max() over an
\* empty catalog raises ValueError after the first line is out; nothing
\* catches either.
InfoPresent ==
    /\ pc = "command"
    /\ args.command = "info"
    /\ binary = "present"
    /\ \E rc \in {0, 1} :
         IF rc # 0 THEN Crash("CalledProcessError")
         ELSE IF SUPPORTED_FORMATS = <<>>
         THEN /\ echoed' = echoed \o <<[kind |-> "installed"],
                                       [kind |-> "traceback", what |-> "ValueError"]>>
              /\ exitCode' = 1
              /\ pc' = "done"
         ELSE LET ext_max_len ==
                      Max({Len(SUPPORTED_FORMATS[i].extension) :
                              i \in 1..Len(SUPPORTED_FORMATS)})
              IN  /\ echoed' = echoed \o <<[kind |-> "installed"]>>
                        \o <<[kind |-> "decoders"]>>
                        \o FormatLines(COMMON_SUPPORTED_DECODE_FORMATS, ext_max_len)
                        \o <<[kind |-> "encoders"]>>
                        \o FormatLines(COMMON_SUPPORTED_ENCODE_FORMATS, ext_max_len)
                  /\ exitCode' = 0
                  /\ pc' = "done"
    /\ UNCHANGED <<binary, fs, args, run, catalogVars, SUPPORTED_FORMATS,
                   SUPPORTED_FORMATS_BY_EXTENSION, driverVars, fsAtStart,
                   missingAtStart, lastRun>>

\* lines 75-79: every requested format must be a key of the catalog
ValidateFormats ==
    /\ pc = "validate"
    /\ LET k == FirstUnsupported(args.output, SUPPORTED_FORMATS_BY_EXTENSION)
       IN  IF k = 0
           THEN /\ pc' = "scan"
                /\ UNCHANGED <<echoed, exitCode>>
           ELSE /\ echoed' = Append(echoed, [kind |-> "unsupported",
                                               fmt |-> args.output[k]])
                /\ exitCode' = 1
                /\ pc' = "done"
    /\ UNCHANGED <<binary, fs, args, run, catalogVars, SUPPORTED_FORMATS,
                   SUPPORTED_FORMATS_BY_EXTENSION, driverVars, fsAtStart,
                   missingAtStart, lastRun>>

\* lines 34-38: expand the glob, log, reset the counter, enter the loops
ScanGlob ==
    /\ pc = "scan"
    /\ \E found \in GlobResults(fs, args.glob_pattern) :
         /\ paths' = found
         /\ echoed' = Log(Log(echoed, [kind |-> "scanning"], args.verbose),
                          [kind |-> "found", count |-> Len(found)], args.verbose)
    /\ scanned' = TRUE
    /\ converted_count' = 0
    /\ fmtNo' = 1
    /\ pathNo' = 1
    /\ pc' = "loop"
    /\ UNCHANGED <<binary, fs, args, run, catalogVars, SUPPORTED_FORMATS,
                   SUPPORTED_FORMATS_BY_EXTENSION, exitCode, calls, probes,
                   fsAtStart, missingAtStart, lastRun>>

InLoop == pc = "loop" /\ fmtNo <= Len(args.output) /\ pathNo <= Len(paths)

\* line 39: for output_format in output_formats
CurrentFormat == args.output[fmtNo]

\* CurrentPath walking the list from its end
CurrentPath_Reversed == paths[Len(paths) + 1 - pathNo]

\* line 40: for path in paths
CurrentPath == paths[pathNo]

\* lines 40-41: a path whose suffix is not .wav is passed over
PassOver ==
    /\ InLoop
    /\ ~IsCandidate(CurrentPath)
    /\ pathNo' = pathNo + 1
    /\ UNCHANGED <<binary, fs, args, run, pc, catalogVars, SUPPORTED_FORMATS,
                   SUPPORTED_FORMATS_BY_EXTENSION, paths, fmtNo, converted_count,
                   echoed, exitCode, calls, probes, scanned, fsAtStart,
                   missingAtStart, lastRun>>

Call(input_path, output_path, invocations, result) ==
    [fmtNo |-> fmtNo, pathNo |-> pathNo, input_path |-> input_path,
     output_path |-> output_path, invocations |-> invocations, result |-> result]

\* lines 42, 22-25: convert_file returns False without running ffmpeg
ConvertFileSkips ==
    /\ InLoop
    /\ IsCandidate(CurrentPath)
    /\ LET input_path == CurrentPath
           output_path == WithSuffix(input_path, CurrentFormat)
       IN  /\ ShouldSkip(output_path \in fs, args.force)
           /\ echoed' = Log(echoed, [kind |-> "skipping", path |-> output_path],
                            args.verbose)
           /\ calls' = Append(calls, Call(input_path, output_path, 0, "False"))
    /\ probes' = probes + 1
    /\ pathNo' = pathNo + 1
    /\ UNCHANGED <<binary, fs, args, run, pc, catalogVars, SUPPORTED_FORMATS,
                   SUPPORTED_FORMATS_BY_EXTENSION, paths, fmtNo, converted_count,
                   exitCode, scanned, fsAtStart, missingAtStart, lastRun>>

\* lines 42-44, 22-28: convert_file runs ffmpeg; it exits 0 and has written the
\* output, and the file counts as converted
ConvertFileConverts ==
    /\ InLoop
    /\ IsCandidate(CurrentPath)
    /\ binary = "present"
    /\ LET input_path == CurrentPath
           output_path == WithSuffix(input_path, CurrentFormat)
       IN  /\ ~ShouldSkip(output_path \in fs, args.force)
           /\ fs' = fs \cup {output_path}
           /\ echoed' = Log(echoed, [kind |-> "converted", src |-> input_path,
                                      dst |-> output_path], args.verbose)
           /\ calls' = Append(calls, Call(input_path, output_path, 1, "True"))
    /\ probes' = probes + 1
    /\ converted_count' = converted_count + 1
    /\ pathNo' = pathNo + 1
    /\ UNCHANGED <<binary, args, run, pc, catalogVars, SUPPORTED_FORMATS,
                   SUPPORTED_FORMATS_BY_EXTENSION, paths, fmtNo, exitCode,
                   scanned, fsAtStart, missingAtStart, lastRun>>

\* ConvertFileFails with the exception swallowed: the loop goes on
ConvertFileFails_Continues ==
    /\ InLoop
    /\ IsCandidate(CurrentPath)
    /\ LET input_path == CurrentPath
           output_path == WithSuffix(input_path, CurrentFormat)
       IN  /\ ~ShouldSkip(output_path \in fs, args.force)
           /\ calls' = Append(calls, Call(input_path, output_path, 1, "raised"))
           /\ echoed' = ErrorExit(echoed, "CalledProcessError")
    /\ probes' = probes + 1
    /\ pathNo' = pathNo + 1
    /\ UNCHANGED <<binary, fs, args, run, pc, catalogVars, SUPPORTED_FORMATS,
                   SUPPORTED_FORMATS_BY_EXTENSION, paths, fmtNo, converted_count,
                   exitCode, scanned, fsAtStart, missingAtStart, lastRun>>

\* lines 26, 83-86: ffmpeg cannot be launched because it is no longer on the
\* PATH (FileNotFoundError), or it exits nonzero (CalledProcessError, the output
\* possibly left behind); the exception leaves convert_file and convert_files
\* and is reported by convert
ConvertFileFails ==
    /\ InLoop
    /\ IsCandidate(CurrentPath)
    /\ LET input_path == CurrentPath
           output_path == WithSuffix(input_path, CurrentFormat)
       IN  /\ ~ShouldSkip(output_path \in fs, args.force)
           /\ calls' = Append(calls, Call(input_path, output_path, 1, "raised"))
           /\ \E found \in BOOLEAN :
                IF binary = "missing" \/ ~found
                THEN /\ binary' = "missing"
                     /\ fs' = fs
                     /\ echoed' = ErrorExit(echoed, "FileNotFoundError")
                ELSE /\ binary' = binary
                     /\ fs' \in {fs, fs \cup {output_path}}
                     /\ echoed' = ErrorExit(echoed, "CalledProcessError")
    /\ probes' = probes + 1
    /\ exitCode' = 1
    /\ pc' = "done"
    /\ UNCHANGED <<args, run, catalogVars, SUPPORTED_FORMATS,
                   SUPPORTED_FORMATS_BY_EXTENSION, paths, fmtNo, pathNo,
                   converted_count, scanned, fsAtStart, missingAtStart, lastRun>>

\* line 45: the inner loop is over; log the count, go to the next format
EndFormat ==
    /\ pc = "loop"
    /\ fmtNo <= Len(args.output)
    /\ pathNo > Len(paths)
    /\ echoed' = Log(echoed, [kind |-> "subtotal", fmt |-> CurrentFormat,
                              fmtNo |-> fmtNo,
                              count |-> SubtotalReported(converted_count)],
                     args.verbose)
    /\ fmtNo' = fmtNo + 1
    /\ pathNo' = 1
    /\ UNCHANGED <<binary, fs, args, run, pc, catalogVars, SUPPORTED_FORMATS,
                   SUPPORTED_FORMATS_BY_EXTENSION, paths, converted_count,
                   exitCode, calls, probes, scanned, fsAtStart, missingAtStart,
                   lastRun>>

\* line 46 and the normal return of convert: log the summary, exit status 0
Finish ==
    /\ pc = "loop"
    /\ fmtNo > Len(args.output)
    /\ echoed' = Log(echoed, [kind |-> "summary", converted |-> converted_count,
                              skipped |-> SkippedCount(paths, converted_count)],
                     args.verbose)
    /\ exitCode' = 0
    /\ pc' = "done"
    /\ UNCHANGED <<binary, fs, args, run, catalogVars, SUPPORTED_FORMATS,
                   SUPPORTED_FORMATS_BY_EXTENSION, driverVars, fsAtStart,
                   missingAtStart, lastRun>>

----------------------------------------------------------------------------
(* The environment *)

\* ffmpeg is taken off the PATH after the module was imported and before the
\* pre-flight check looks for it (a removal later on shows at the launch of a
\* conversion, see ConvertFileFails)
FfmpegRemoved ==
    /\ binary = "present"
    /\ pc = "command"
    /\ binary' = "missing"
    /\ UNCHANGED <<fs, args, run, pc, catalogVars, SUPPORTED_FORMATS,
                   SUPPORTED_FORMATS_BY_EXTENSION, driverVars, echoed, exitCode,
                   fsAtStart, missingAtStart, lastRun>>

\* the invocations of conversions among the convert_file calls
Invocations(cs) == SelectSeq(cs, LAMBDA c : c.invocations > 0)

\* the same command line is run again after a run that completed (exit status
\* 0, so every conversion it launched succeeded and wrote its output)
RunAgain ==
    /\ pc = "done"
    /\ exitCode = 0
    /\ run < MaxRuns
    /\ Cardinality({n \in fs : Fnmatch(n, args.glob_pattern)}) <= MaxListed
    /\ run' = run + 1
    /\ lastRun' = [ended |-> TRUE, exitCode |-> exitCode,
                    invoked |-> Len(Invocations(calls))]
    /\ fsAtStart' = fs
    /\ missingAtStart' = (binary = "missing")
    /\ pc' = "import"
    /\ lines' = <<>>
    /\ lineNo' = 0
    /\ formats' = <<>>
    /\ SUPPORTED_FORMATS' = <<>>
    /\ SUPPORTED_FORMATS_BY_EXTENSION' = <<>>
    /\ paths' = <<>>
    /\ fmtNo' = 0
    /\ pathNo' = 0
    /\ converted_count' = 0
    /\ echoed' = <<>>
    /\ exitCode' = -1
    /\ calls' = <<>>
    /\ probes' = 0
    /\ scanned' = FALSE
    /\ UNCHANGED <<binary, fs, args, stdout>>

----------------------------------------------------------------------------
(* The convert command on a small working directory *)

Mp3 == <<"m", "p", "3">>
Ogg == <<"o", "g", "g">>
AWav == <<"a", ".", "w", "a", "v">>
BWav == <<"b", ".", "w", "a", "v">>
CTxt == <<"c", ".", "t", "x", "t">>
AMp3 == <<"a", ".", "m", "p", "3">>
BMp3 == <<"b", ".", "m", "p", "3">>
DWav == <<"d", ".", "w", "a", "v">>

\* " DE mp3,ogg x": both formats are in the catalog
BothFormats == <<" ", "D", "E", " ", "m", "p", "3", ",", "o", "g", "g", " ", "x">>
\* "File formats:" banner replaced by a non-matching line, then "  E mp3 x":
\* ogg is not in the catalog
OnlyMp3 == <<"d", "\n", " ", " ", "E", " ", "m", "p", "3", " ", "x">>

\* `ffmpeg -formats` prints nothing on its standard output: an empty catalog
Nothing == <<>>

\* `shrinktunes info` takes no arguments
InfoArgs == [command |-> "info", glob_pattern |-> <<>>, output |-> <<>>,
             verbose |-> FALSE, force |-> FALSE]

InitialFiles == {AWav, BWav, CTxt, AMp3, DWav}
GlobPatterns == {<<"*">>, <<"*", ".", "w", "a", "v">>}
OutputLists == UNION {[1..n -> {Mp3, Ogg}] : n \in 1..MaxFormats}

Init ==
    /\ binary \in {"present", "missing"}
    /\ stdout \in IF binary = "present" THEN {BothFormats, OnlyMp3, Nothing}
                                           ELSE {<<>>}
    /\ fs \in {S \in SUBSET InitialFiles : Cardinality(S) <= MaxFiles}
    /\ args \in [command : {"convert"}, glob_pattern : GlobPatterns,
                 output : OutputLists, verbose : BOOLEAN, force : BOOLEAN]
                \cup {InfoArgs}
    /\ run = 1
    /\ fsAtStart = fs
    /\ missingAtStart = (binary = "missing")
    /\ lastRun = [ended |-> FALSE, exitCode |-> -1, invoked |-> 0]
    /\ ProcessStart

Next ==
    \/ ImportFails \/ RunFormatsQuery \/ ParseLine \/ ReturnFormats
    \/ PreflightMissing \/ PreflightPresent \/ ValidateFormats \/ ScanGlob
    \/ InfoMissing \/ InfoPresent
    \/ PassOver \/ ConvertFileSkips \/ ConvertFileConverts \/ ConvertFileFails
    \/ EndFormat \/ Finish
    \/ FfmpegRemoved \/ RunAgain

Spec == Init /\ [][Next]_vars

----------------------------------------------------------------------------
(* Properties *)

Last(q) == q[Len(q)]
Kinds(ks) == SelectSeq(echoed, LAMBDA m : m.kind \in ks)
EndsInDotWav(name) ==
    Len(name) > 4 /\ SubSeq(name, Len(name) - 3, Len(name)) = DotWav
Converted(cs) == SelectSeq(cs, LAMBDA c : c.result = "True")
Ended == pc = "done"
EndedWell == pc = "done" /\ exitCode = 0

\* C1: a convert_file call runs ffmpeg exactly once when -f is given or the
\* output does not exist; when the output exists and -f is not given it runs
\* ffmpeg zero times, returns False and leaves the file system as it was.
C1_ConvertOne ==
    [][Len(calls') = Len(calls) + 1 =>
        LET c == Last(calls')
        IN  /\ (args.force \/ c.output_path \notin fs) => c.invocations = 1
            /\ (c.output_path \in fs /\ ~args.force) =>
                   (c.invocations = 0 /\ c.result = "False" /\ fs' = fs)]_vars

C1_Witness ==
    /\ ~args.force
    /\ \E i, j \in 1..Len(calls) :
         /\ calls[i].invocations = 0 /\ calls[i].output_path \in fsAtStart
         /\ calls[j].invocations = 1 /\ calls[j].output_path \notin fsAtStart

\* C2: fail-fast: a failed ffmpeg invocation is the last convert_file call of
\* the process, which has ended with a nonzero exit status.
C2_FailFast ==
    \A i \in 1..Len(calls) :
        calls[i].result = "raised" =>
            /\ i = Len(calls)
            /\ Ended
            /\ exitCode # 0

\* a failure on the second of three candidates: the third is never visited
C2_Witness ==
    /\ Ended
    /\ Len(SelectSeq(paths, EndsInDotWav)) = 3
    /\ Len(args.output) = 1
    /\ Len(calls) = 2
    /\ calls[1].result = "True"
    /\ calls[2].result = "raised"

\* C3: idempotence: when the previous run of the same command line without -f
\* completed, every ffmpeg invocation of it having succeeded and written its
\* output, this run invokes ffmpeg zero times and converts 0 files.
C3_Idempotent ==
    (run >= 2 /\ ~args.force /\ lastRun.ended /\ lastRun.exitCode = 0) =>
        /\ \A i \in 1..Len(calls) : calls[i].invocations = 0
        /\ converted_count = 0
        /\ fs = fsAtStart

C3_Witness ==
    /\ run = 2
    /\ ~args.force
    /\ lastRun.exitCode = 0
    /\ lastRun.invoked >= 2
    /\ EndedWell
    /\ Len(calls) >= 2

\* the concrete scenario of C4
C4Scenario ==
    /\ paths = <<AWav, BWav, CTxt>>
    /\ args.output = <<Mp3>>
    /\ AMp3 \notin fsAtStart
    /\ BMp3 \notin fsAtStart

C4Expected == <<[src |-> AWav, dst |-> AMp3], [src |-> BWav, dst |-> BMp3]>>

\* C4: only files whose extension is exactly wav reach convert_file; with
\* matches [a.wav, b.wav, c.txt], target [mp3] and no outputs present, the
\* conversions attempted are a.wav -> a.mp3 then b.wav -> b.mp3 and no other.
C4_OnlyWav ==
    /\ \A i \in 1..Len(calls) : EndsInDotWav(calls[i].input_path)
    /\ C4Scenario =>
         /\ Len(calls) <= 2
         /\ \A i \in 1..Len(calls) :
              /\ calls[i].invocations = 1
              /\ [src |-> calls[i].input_path, dst |-> calls[i].output_path]
                   = C4Expected[i]
         /\ EndedWell => Len(calls) = 2

C4_Witness == C4Scenario /\ EndedWell /\ Len(calls) = 2

\* C5 as stated: the skipped count of the summary is the number of candidates
\* (matches with extension wav) minus the number of files converted.
C5_SkippedFromCandidates ==
    (EndedWell /\ args.verbose) =>
        /\ Last(echoed).kind = "summary"
        /\ Last(echoed).skipped =
               Len(SelectSeq(paths, EndsInDotWav)) - Len(Converted(calls))

\* C5 amended: the skipped count of the summary is the number of glob matches,
\* whatever their extension, minus the number of files converted.
C5_SkippedFromMatches ==
    (EndedWell /\ args.verbose) =>
        /\ Last(echoed).kind = "summary"
        /\ Last(echoed).converted = Len(Converted(calls))
        /\ Last(echoed).skipped = Len(paths) - Len(Converted(calls))

C5_Witness ==
    /\ EndedWell
    /\ args.verbose
    /\ \E i \in 1..Len(paths) : ~EndsInDotWav(paths[i])
    /\ Len(Converted(calls)) >= 1
    /\ \E i \in 1..Len(calls) : calls[i].result = "False"

\* some requested format is not a key of the catalog
C6Unsupported ==
    \E i \in 1..Len(args.output) :
        args.output[i] \notin DOMAIN SUPPORTED_FORMATS_BY_EXTENSION

\* C6: when a requested format is not in the catalog, the process never scans
\* the glob, never checks an output for existence, never runs a conversion and
\* never changes the file system; it ends with a nonzero status, and a run that
\* got to the validation ends by reporting a requested, unsupported format.
C6_UnsupportedFormat ==
    C6Unsupported =>
        /\ ~scanned
        /\ probes = 0
        /\ calls = <<>>
        /\ fs = fsAtStart
        /\ Ended => exitCode # 0
        /\ (Ended /\ Kinds({"traceback", "not_installed"}) = <<>>) =>
              /\ Last(echoed).kind = "unsupported"
              /\ Last(echoed).fmt \notin DOMAIN SUPPORTED_FORMATS_BY_EXTENSION
              /\ \E i \in 1..Len(args.output) : args.output[i] = Last(echoed).fmt

\* a supported format first, an unsupported one after it, files to convert
C6_Witness ==
    /\ Ended
    /\ Len(args.output) = 2
    /\ args.output[1] \in DOMAIN SUPPORTED_FORMATS_BY_EXTENSION
    /\ args.output[2] \notin DOMAIN SUPPORTED_FORMATS_BY_EXTENSION
    /\ echoed # <<>>
    /\ Last(echoed).kind = "unsupported"
    /\ AWav \in fs
    /\ AMp3 \notin fs

\* C7: a process started with ffmpeg missing ends at the pre-flight check: it
\* prints the installation hint and exits nonzero, and nothing fails before.
C7_MissingDetectedAtPreflight ==
    (Ended /\ missingAtStart /\ args.command = "convert") =>
        /\ exitCode # 0
        /\ Kinds({"install_hint"}) # <<>>
        /\ Kinds({"traceback"}) = <<>>

\* the capability line shape: [D][.][E], blanks, a token, blanks, free text
IsCapabilityLine(line) ==
    \E a \in 0..SpaceRun(line, 1), d, p, e \in {0, 1} :
        /\ d = 1 => (a + 1 <= Len(line) /\ line[a + 1] = "D")
        /\ p = 1 => (a + d + 1 <= Len(line) /\ line[a + d + 1] = ".")
        /\ e = 1 => (a + d + p + 1 <= Len(line) /\ line[a + d + p + 1] = "E")
        /\ LET q == a + d + p + e + 1
               g == SpaceRun(line, q)
               w == WordRun(line, q + g)
           IN  g >= 1 /\ w >= 1 /\ SpaceRun(line, q + g + w) >= 1

Commas(token) == {i \in 1..Len(token) : token[i] = ","}

PartCount(line) ==
    IF IsCapabilityLine(line)
    THEN Cardinality(Commas(PatternMatch(line).extension)) + 1
    ELSE 0

\* the j-th comma separated part of token
Part(token, j) ==
    LET cuts == Commas(token) \cup {0, Len(token) + 1}
        from == CHOOSE c \in cuts : Cardinality({x \in cuts : x < c}) = j - 1
        to == CHOOSE c \in cuts : Cardinality({x \in cuts : x < c}) = j
    IN  SubSeq(token, from + 1, to - 1)

RECURSIVE PartsBefore(_, _)
PartsBefore(ls, i) ==
    IF i <= 1 THEN 0 ELSE PartsBefore(ls, i - 1) + PartCount(ls[i - 1])

C8Trimmed(text, desc) ==
    /\ desc = <<>> \/ (~IsSpace(desc[1]) /\ ~IsSpace(desc[Len(desc)]))
    /\ \E lead \in 0..Len(text) :
         /\ SubSeq(text, lead + 1, lead + Len(desc)) = desc
         /\ \A i \in (1..lead) \cup ((lead + Len(desc) + 1)..Len(text)) :
              IsSpace(text[i])

\* C8: the list built by get_ffmpeg_supported_formats holds, for the lines read
\* so far in order, k descriptors for a line of the capability shape whose
\* extension token has k comma separated parts (the parts in order, each with
\* the line's flags and trimmed description) and none for any other line.
C8_OneDescriptorPerExtension ==
    pc \in {"parse", "command"} =>
        /\ Len(lines) = Cardinality({i \in 1..Len(stdout) : stdout[i] = "\n"}) + 1
        /\ Len(formats) = PartsBefore(lines, lineNo)
        /\ \A i \in 1..(lineNo - 1) :
             \A j \in 1..PartCount(lines[i]) :
                LET m == PatternMatch(lines[i])
                    f == formats[PartsBefore(lines, i) + j]
                IN  /\ f.extension = Part(m.extension, j)
                    /\ f.is_decoder = (m.is_decoder = "D")
                    /\ f.is_encoder = (m.is_encoder = "E")
                    /\ C8Trimmed(m.description, f.description)

\* a line with two or more extensions, a line that does not match
C8_Witness ==
    /\ pc = "command"
    /\ \E i \in 1..Len(lines) : PartCount(lines[i]) >= 2
    /\ \E i \in 1..Len(lines) : ~IsCapabilityLine(lines[i]) /\ lines[i] # <<>>
    /\ Len(formats) >= 2

\* C9: the convert_file calls are in the order of the formats given (outer
\* loop) and, within a format, of the paths found (inner loop); each call is
\* for the path and the format at its position; the per-file log lines follow
\* the same order.
C9_LoopOrder ==
    /\ \A i \in 1..Len(calls) :
         /\ calls[i].fmtNo \in 1..Len(args.output)
         /\ calls[i].pathNo \in 1..Len(paths)
         /\ calls[i].input_path = paths[calls[i].pathNo]
         /\ Suffix(calls[i].output_path) = <<".">> \o args.output[calls[i].fmtNo]
    /\ \A i, j \in 1..Len(calls) :
         i < j => \/ calls[i].fmtNo < calls[j].fmtNo
                  \/ /\ calls[i].fmtNo = calls[j].fmtNo
                     /\ calls[i].pathNo < calls[j].pathNo
    /\ args.verbose =>
         LET logged == Kinds({"skipping", "converted"})
             returned == SelectSeq(calls, LAMBDA c : c.result # "raised")
         IN  /\ Len(logged) = Len(returned)
             /\ \A i \in 1..Len(logged) :
                  /\ (logged[i].kind = "skipping") = (returned[i].result = "False")
                  /\ logged[i].kind = "skipping" =>
                       logged[i].path = returned[i].output_path
                  /\ logged[i].kind = "converted" =>
                       /\ logged[i].src = returned[i].input_path
                       /\ logged[i].dst = returned[i].output_path

C9_Witness ==
    /\ EndedWell
    /\ args.verbose
    /\ Len(args.output) = 2
    /\ args.output[1] # args.output[2]
    /\ Len(calls) >= 4
    /\ calls[1].input_path # calls[2].input_path

\* number of files converted to the k-th requested format
ConvertedTo(k) ==
    Cardinality({i \in 1..Len(calls) :
                    calls[i].fmtNo = k /\ calls[i].result = "True"})

RECURSIVE SumCounts(_)
SumCounts(ms) == IF ms = <<>> THEN 0 ELSE Head(ms).count + SumCounts(Tail(ms))

\* C10: the count logged after each format is the number of files converted to
\* that format, and the total of the summary is the sum of those counts.
C10_PerFormatSubtotal ==
    LET subtotals == Kinds({"subtotal"})
    IN  /\ \A i \in 1..Len(subtotals) :
             subtotals[i].count = ConvertedTo(subtotals[i].fmtNo)
        /\ (EndedWell /\ args.verbose) =>
             Last(echoed).converted = SumCounts(subtotals)

====
